---- MODULE Spec2Model ----
(***************************************************************************)
(* Red-Blue Nim (red_blue_nim_gui.py): Rules, the memoized Solver and the  *)
(* NimApp session (start / human move / AI move / auto-play), modelled     *)
(* handler by handler.                                                     *)
(***************************************************************************)
EXTENDS Integers, Sequences, FiniteSets, TLC

VARIABLES rules, memo, current_state, transcript, turn, player_types,
          btn_start, btn_human_move, btn_ai_move, btn_auto, btn_report,
          winner_log, state_is_str, last_op, optimal

vars == <<rules, memo, current_state, transcript, turn, player_types,
          btn_start, btn_human_move, btn_ai_move, btn_auto, btn_report,
          winner_log, state_is_str, last_op, optimal>>

(* ---------------- bounds ---------------- *)
\* largest pile the solver is asked about; largest pile of a started game
MaxPile == 3
MaxStart == 3

(* ---------------- values ---------------- *)
\* State(red, blue); Move(pile, take)
State(r, b) == [red |-> r, blue |-> b]
Move(p, t) == [pile |-> p, take |-> t]
\* Optional[...] fields that are None before a game is started
NoState == State(-1, -1)
NoMemo == <<>>
\* the last handler that ran, how it ended, and the move a human submitted
NoMove == Move("-", 0)
Op(op, outcome, mv) == [op |-> op, outcome |-> outcome, move |-> mv]
\* Optional[bool]: None is the empty sequence, a value b is <<b>>
None == <<>>
Some(b) == <<b>>

Variants == {"standard", "misere"}
\* the variant strings the start form can hold (one unrecognised string)
VariantInputs == Variants \cup {"bogus"}
Piles == {"R", "B"}
Takes == {1, 2}
Positions == {State(r, b) : r \in 0..MaxPile, b \in 0..MaxPile}
NonTerminal == {s \in Positions : s.red >= 1 /\ s.blue >= 1}

(* ---------------- Rules ---------------- *)
\* variant of legal_moves that forgets the blue pile
legal_moves_red_only(s) ==
    IF s.red > 0
      THEN (IF s.red >= 1 THEN <<Move("R", 1)>> ELSE <<>>)
           \o (IF s.red >= 2 THEN <<Move("R", 2)>> ELSE <<>>)
      ELSE <<>>

\* variant of legal_moves that offers nothing once a pile is empty
legal_moves_none_at_terminal(s) ==
    IF s.red = 0 \/ s.blue = 0
      THEN <<>>
      ELSE (IF s.red >= 2 THEN <<Move("R", 1), Move("R", 2)>> ELSE <<Move("R", 1)>>)
           \o (IF s.blue >= 2 THEN <<Move("B", 1), Move("B", 2)>> ELSE <<Move("B", 1)>>)

legal_moves(s) ==
    (IF s.red > 0
       THEN (IF s.red >= 1 THEN <<Move("R", 1)>> ELSE <<>>)
            \o (IF s.red >= 2 THEN <<Move("R", 2)>> ELSE <<>>)
       ELSE <<>>)
    \o
    (IF s.blue > 0
       THEN (IF s.blue >= 1 THEN <<Move("B", 1)>> ELSE <<>>)
            \o (IF s.blue >= 2 THEN <<Move("B", 2)>> ELSE <<>>)
       ELSE <<>>)

\* "cand in legal": list membership by dataclass equality
InList(m, l) == \E i \in 1..Len(l) : l[i] = m

\* Rules.apply raises ValueError on an illegal move
IllegalMove == State(-2, -2)
\* variant of apply that removes one token whatever the take
apply_takes_one(s, m) ==
    IF m.pile = "R"
      THEN IF m.take \notin {1, 2} \/ s.red < m.take
             THEN IllegalMove
             ELSE State(s.red - 1, s.blue)
      ELSE IF m.take \notin {1, 2} \/ s.blue < m.take
             THEN IllegalMove
             ELSE State(s.red, s.blue - 1)

\* variant of apply without the check that the pile holds the take
apply_unchecked(s, m) ==
    IF m.pile = "R"
      THEN IF m.take \notin {1, 2} THEN IllegalMove
                                   ELSE State(s.red - m.take, s.blue)
      ELSE IF m.take \notin {1, 2} THEN IllegalMove
                                   ELSE State(s.red, s.blue - m.take)

apply(s, m) ==
    IF m.pile = "R"
      THEN IF m.take \notin {1, 2} \/ s.red < m.take
             THEN IllegalMove
             ELSE State(s.red - m.take, s.blue)
      ELSE IF m.take \notin {1, 2} \/ s.blue < m.take
             THEN IllegalMove
             ELSE State(s.red, s.blue - m.take)

\* variant of ends_immediately that looks at the red pile only
ends_immediately_red_only(s_after) == s_after.red = 0

ends_immediately(s_after) == s_after.red = 0 \/ s_after.blue = 0

\* variant of terminal_value_from_mover that ignores the variant
terminal_value_from_mover_always(v) == TRUE

terminal_value_from_mover(v) == IF v = "standard" THEN TRUE ELSE FALSE

terminal_value_from_next(v) == IF v = "standard" THEN FALSE ELSE TRUE

(* ---------------- Solver ---------------- *)
Key(s) == <<s.red, s.blue>>
\* variant of the memo write that replaces the whole dictionary
MemoPut_forgets(m, k, b) == [x \in {k} |-> b]

\* variant of the memo write that stores the negated verdict
MemoPut_negated(m, k, b) == [x \in (DOMAIN m) \cup {k} |-> IF x = k THEN ~b ELSE m[x]]

\* self.memo[key] = b
MemoPut(m, k, b) == [x \in (DOMAIN m) \cup {k} |-> IF x = k THEN b ELSE m[x]]

\* the single element of a one-element set; {F(x) : x \in {e}} binds x to the
\* value of e once, the way a Python local holds the result of a call
Only(S) == CHOOSE x \in S : TRUE

\* is_winning returns [val, memo]: the verdict and the memo after the call
RECURSIVE is_winning(_, _, _), is_winning_loop(_, _, _, _, _)
is_winning(v, m, s) ==
    IF s.red = 0 \/ s.blue = 0
      THEN [val |-> terminal_value_from_next(v), memo |-> m]
      ELSE IF Key(s) \in DOMAIN m
             THEN [val |-> m[Key(s)], memo |-> m]
             ELSE is_winning_loop(v, m, s, legal_moves(s), 1)

\* the for-loop of is_winning over legal_moves(s), from index i on
is_winning_loop(v, m, s, moves, i) ==
    IF i > Len(moves)
      THEN [val |-> FALSE, memo |-> MemoPut(m, Key(s), FALSE)]
      ELSE Only({
             IF ends_immediately(s2)
               THEN IF terminal_value_from_mover(v)
                      THEN [val |-> TRUE, memo |-> MemoPut(m, Key(s), TRUE)]
                      ELSE is_winning_loop(v, m, s, moves, i + 1)
               ELSE Only({
                      IF ~q.val
                        THEN [val |-> TRUE, memo |-> MemoPut(q.memo, Key(s), TRUE)]
                        ELSE is_winning_loop(v, q.memo, s, moves, i + 1)
                      : q \in {is_winning(v, m, s2)}})
             : s2 \in {apply(s, moves[i])}})

\* variant of the preference order that tries take 1 before take 2
Pref_take1_first == <<Move("R", 1), Move("B", 1), Move("R", 2), Move("B", 2)>>

\* preference order of best_move: take in (2,1), pile in ("R","B")
Pref == <<Move("R", 2), Move("B", 2), Move("R", 1), Move("B", 1)>>

\* second pass of best_move: first legal candidate, else RuntimeError
RECURSIVE best_move_second(_, _, _)
best_move_second(m, legal, i) ==
    IF i > Len(Pref)
      THEN [raised |-> TRUE, move |-> Move("R", 0), memo |-> m]
      ELSE IF InList(Pref[i], legal)
             THEN [raised |-> FALSE, move |-> Pref[i], memo |-> m]
             ELSE best_move_second(m, legal, i + 1)

\* first pass of best_move from candidate i on
RECURSIVE best_move_first(_, _, _, _, _)
best_move_first(v, m, s, legal, i) ==
    IF i > Len(Pref)
      THEN best_move_second(m, legal, 1)
      ELSE IF ~InList(Pref[i], legal)
             THEN best_move_first(v, m, s, legal, i + 1)
             ELSE Only({
                    IF ends_immediately(s2)
                      THEN IF terminal_value_from_mover(v)
                             THEN [raised |-> FALSE, move |-> Pref[i], memo |-> m]
                             ELSE best_move_first(v, m, s, legal, i + 1)
                      ELSE Only({
                             IF ~q.val
                               THEN [raised |-> FALSE, move |-> Pref[i],
                                     memo |-> q.memo]
                               ELSE best_move_first(v, q.memo, s, legal, i + 1)
                             : q \in {is_winning(v, m, s2)}})
                    : s2 \in {apply(s, Pref[i])}})

\* variant of best_move without the first pass
best_move_second_only(v, m, s) == best_move_second(m, legal_moves(s), 1)

\* best_move returns [raised, move, memo]
best_move(v, m, s) == best_move_first(v, m, s, legal_moves(s), 1)

(* ---------------- NimApp ---------------- *)
\* ttk's widget['state'] == "normal": true only when the toolkit hands the
\* option back as a str equal to it; a Tcl_Obj never compares equal to a str
StateEq(widget_state, str) == state_is_str /\ widget_state = str

\* the session fields of NimApp as one record
App == [rules |-> rules, memo |-> memo, current_state |-> current_state,
        transcript |-> transcript, turn |-> turn, player_types |-> player_types,
        btn_start |-> btn_start, btn_human_move |-> btn_human_move,
        btn_ai_move |-> btn_ai_move, btn_auto |-> btn_auto,
        btn_report |-> btn_report, winner_log |-> winner_log,
        optimal |-> optimal, raised |-> FALSE]

Commit(a) ==
    /\ rules' = a.rules
    /\ memo' = a.memo
    /\ current_state' = a.current_state
    /\ transcript' = a.transcript
    /\ turn' = a.turn
    /\ player_types' = a.player_types
    /\ btn_start' = a.btn_start
    /\ btn_human_move' = a.btn_human_move
    /\ btn_ai_move' = a.btn_ai_move
    /\ btn_auto' = a.btn_auto
    /\ btn_report' = a.btn_report
    /\ winner_log' = a.winner_log
    /\ optimal' = a.optimal

\* a game is in progress (AwaitingMove) / over (Finished)
Awaiting == rules # "None" /\ btn_start = "disabled"
Finished == rules # "None" /\ btn_start = "normal"

\* variant of finish_game that leaves the Start button disabled
finish_game_start_disabled(a) ==
    [a EXCEPT !.btn_human_move = "disabled", !.btn_ai_move = "disabled",
              !.btn_auto = "disabled", !.btn_report = "normal"]

finish_game(a) ==
    [a EXCEPT !.btn_human_move = "disabled", !.btn_ai_move = "disabled",
              !.btn_auto = "disabled", !.btn_start = "normal",
              !.btn_report = "normal"]

\* history: the players who, since they were first to move at a position the
\* solver calls winning, have played best_move on every turn of theirs
Track(a, mv) ==
    IF a.btn_start = "normal"
      THEN a.optimal
      ELSE Only({
             IF bm.raised \/ bm.move # mv
               THEN a.optimal \ {a.turn}
               ELSE IF is_winning(a.rules, a.memo, a.current_state).val
                      THEN a.optimal \cup {a.turn}
                      ELSE a.optimal
             : bm \in {best_move(a.rules, a.memo, a.current_state)}})

\* the transcript entry apply_move records
Entry(mover, mv, before, after, ended, mover_wins) ==
    [player |-> mover, move |-> mv, before |-> before, after |-> after,
     ended |-> ended,
     mover_wins_if_end |-> IF ended THEN Some(mover_wins) ELSE None]

\* apply_move once `after` is computed
apply_move_after(a, mv, mover, after) ==
    LET before == a.current_state
        ended == ends_immediately(after)
        mover_wins == terminal_value_from_mover(a.rules)
        entry == Entry(mover, mv, before, after, ended, mover_wins)
    IN  IF ended
          THEN finish_game([a EXCEPT
                 !.transcript = Append(a.transcript, entry),
                 !.current_state = after,
                 !.winner_log = Append(a.winner_log,
                                       IF mover_wins THEN a.turn ELSE 1 - a.turn)])
          ELSE IF after.red = 0 \/ after.blue = 0
                 THEN finish_game([a EXCEPT
                        !.transcript = Append(a.transcript, entry),
                        !.current_state = after,
                        !.turn = 1 - a.turn,
                        !.winner_log = Append(a.winner_log,
                                              IF terminal_value_from_next(a.rules)
                                                THEN 1 - a.turn ELSE a.turn)])
                 ELSE [a EXCEPT
                        !.transcript = Append(a.transcript, entry),
                        !.current_state = after,
                        !.turn = 1 - a.turn,
                        !.btn_human_move =
                            IF a.player_types[(1 - a.turn) + 1] = "human"
                              THEN "normal" ELSE "disabled",
                        !.btn_ai_move =
                            IF a.player_types[(1 - a.turn) + 1] = "ai"
                              THEN "normal" ELSE "disabled"]

apply_move(a, mv, mover) ==
    Only({ IF after = IllegalMove
             THEN [a EXCEPT !.raised = TRUE]
             ELSE apply_move_after([a EXCEPT !.optimal = Track(a, mv)],
                                   mv, mover, after)
           : after \in {apply(a.current_state, mv)}})

\* on_ai_move returns [app, outcome]
on_ai_move(a) ==
    IF a.player_types[a.turn + 1] # "ai"
      THEN [app |-> a, outcome |-> "not_turn"]
      ELSE Only({
             IF bm.raised
               THEN [app |-> [a EXCEPT !.memo = bm.memo], outcome |-> "raised"]
               ELSE [app |-> apply_move([a EXCEPT !.memo = bm.memo], bm.move, "AI"),
                     outcome |-> "applied"]
             : bm \in {best_move(a.rules, a.memo, a.current_state)}})

\* variant of on_human_move that passes the turn before it checks legality
on_human_move_flips_first(a, pile, take) ==
    IF a.player_types[a.turn + 1] # "human"
      THEN [app |-> a, outcome |-> "not_turn"]
      ELSE IF ~InList(Move(pile, take), legal_moves(a.current_state))
             THEN [app |-> [a EXCEPT !.turn = 1 - a.turn], outcome |-> "illegal"]
             ELSE [app |-> apply_move(a, Move(pile, take), "Human"),
                   outcome |-> "applied"]

on_human_move(a, pile, take) ==
    IF a.player_types[a.turn + 1] # "human"
      THEN [app |-> a, outcome |-> "not_turn"]
      ELSE IF ~InList(Move(pile, take), legal_moves(a.current_state))
             THEN [app |-> a, outcome |-> "illegal"]
             ELSE [app |-> apply_move(a, Move(pile, take), "Human"),
                   outcome |-> "applied"]

Safety == 10000

\* the while-loop of on_autoplay with `safety` iterations left
RECURSIVE autoplay_loop(_, _)
autoplay_loop(a, safety) ==
    IF ~(safety > 0)
      THEN a
      ELSE Only({
             IF bm.raised
               THEN [a EXCEPT !.memo = bm.memo, !.raised = TRUE]
               ELSE Only({
                      IF StateEq(a2.btn_start, "normal")
                        THEN a2
                        ELSE autoplay_loop(a2, safety - 1)
                      : a2 \in {apply_move([a EXCEPT !.memo = bm.memo], bm.move,
                                           IF a.player_types[a.turn + 1] = "human"
                                             THEN "Human (auto)" ELSE "AI (auto)")}})
             : bm \in {best_move(a.rules, a.memo, a.current_state)}})

on_autoplay(a) == autoplay_loop(a, Safety)

PlayerTypes(mode, first) ==
    IF mode = "hh" THEN <<"human", "human">>
    ELSE IF mode = "ha"
           THEN (IF first = "human" THEN <<"human", "ai">> ELSE <<"ai", "human">>)
           ELSE <<"ai", "ai">>

\* update_buttons_after_start
update_buttons_after_start(a) ==
    [a EXCEPT !.btn_start = "disabled",
              !.btn_report = "disabled",
              !.btn_human_move = IF a.player_types[a.turn + 1] = "human"
                                   THEN "normal" ELSE "disabled",
              !.btn_ai_move = IF a.player_types[a.turn + 1] = "ai"
                                THEN "normal" ELSE "disabled",
              !.btn_auto = "normal"]

\* variant of on_start that keeps the Solver of the previous game
on_start_keeps_solver(a, variant, mode, first, r, b) ==
    IF ~(r >= 1 /\ b >= 1)
      THEN [app |-> a, outcome |-> "bad_piles"]
      ELSE IF variant \notin {"standard", "misere"}
             THEN [app |-> a, outcome |-> "bad_variant"]
             ELSE Only({
                    IF a2.player_types[a2.turn + 1] = "ai"
                      THEN [app |-> on_ai_move(a2).app, outcome |-> "started"]
                      ELSE [app |-> a2, outcome |-> "started"]
                    : a2 \in {update_buttons_after_start(
                                [a EXCEPT !.rules = variant,
                                          !.current_state = State(r, b),
                                          !.transcript = <<>>, !.turn = 0,
                                          !.player_types = PlayerTypes(mode, first),
                                          !.winner_log = <<>>, !.optimal = {}])}})

\* variant of on_start that resets the session fields before validating its input
on_start_assigns_first(a, variant, mode, first, r, b) ==
    IF ~(r >= 1 /\ b >= 1)
      THEN [app |-> [a EXCEPT !.transcript = <<>>, !.turn = 0],
            outcome |-> "bad_piles"]
      ELSE IF variant \notin {"standard", "misere"}
             THEN [app |-> [a EXCEPT !.current_state = State(r, b),
                                      !.transcript = <<>>, !.turn = 0],
                   outcome |-> "bad_variant"]
             ELSE Only({
                    IF a2.player_types[a2.turn + 1] = "ai"
                      THEN [app |-> on_ai_move(a2).app, outcome |-> "started"]
                      ELSE [app |-> a2, outcome |-> "started"]
                    : a2 \in {update_buttons_after_start(
                                [a EXCEPT !.rules = variant, !.memo = NoMemo,
                                          !.current_state = State(r, b),
                                          !.transcript = <<>>, !.turn = 0,
                                          !.player_types = PlayerTypes(mode, first),
                                          !.winner_log = <<>>, !.optimal = {}])}})

\* on_start returns [app, outcome]
on_start(a, variant, mode, first, r, b) ==
    IF ~(r >= 1 /\ b >= 1)
      THEN [app |-> a, outcome |-> "bad_piles"]
      ELSE IF variant \notin {"standard", "misere"}
             THEN [app |-> a, outcome |-> "bad_variant"]
             ELSE Only({
                    IF a2.player_types[a2.turn + 1] = "ai"
                      THEN [app |-> on_ai_move(a2).app, outcome |-> "started"]
                      ELSE [app |-> a2, outcome |-> "started"]
                    : a2 \in {update_buttons_after_start(
                                [a EXCEPT !.rules = variant, !.memo = NoMemo,
                                          !.current_state = State(r, b),
                                          !.transcript = <<>>, !.turn = 0,
                                          !.player_types = PlayerTypes(mode, first),
                                          !.winner_log = <<>>, !.optimal = {}])}})

(* ---------------- the application: one action per button ---------------- *)
Init ==
    /\ rules = "None"
    /\ memo = NoMemo
    /\ current_state = NoState
    /\ transcript = <<>>
    /\ turn = 0
    /\ player_types = <<"human", "ai">>
    /\ btn_start = "normal"
    /\ btn_human_move = "disabled"
    /\ btn_ai_move = "disabled"
    /\ btn_auto = "disabled"
    /\ btn_report = "disabled"
    /\ winner_log = <<>>
    /\ state_is_str \in BOOLEAN
    /\ last_op = Op("init", "init", NoMove)
    /\ optimal = {}

\* a press on a disabled button runs no handler
Ignored == UNCHANGED vars

\* the start form: variant, mode, first mover, red and blue counts
StartInputs ==
    {<<variant, pt, r, b>> : variant \in VariantInputs,
                             pt \in {<<"hh", "human">>, <<"ha", "human">>,
                                      <<"ha", "ai">>, <<"aa", "human">>},
                             r \in 0..MaxStart, b \in 0..MaxStart}

StartGame ==
    IF btn_start = "normal"
      THEN \E inp \in StartInputs :
           \E res \in {on_start(App, inp[1], inp[2][1], inp[2][2], inp[3], inp[4])} :
                 /\ Commit(res.app)
                 /\ last_op' = IF res.outcome = "started"
                                THEN Op("start", "started", NoMove)
                                ELSE last_op
                 /\ UNCHANGED state_is_str
      ELSE Ignored

HumanMove ==
    IF btn_human_move = "normal"
      THEN \E pile \in Piles, take \in Takes :
           \E res \in {on_human_move(App, pile, take)} :
                 /\ Commit(res.app)
                 /\ last_op' = Op("human", res.outcome, Move(pile, take))
                 /\ UNCHANGED state_is_str
      ELSE Ignored

AIMove ==
    IF btn_ai_move = "normal"
      THEN \E res \in {on_ai_move(App)} :
               /\ Commit(res.app)
               /\ last_op' = Op("ai", res.outcome, NoMove)
               /\ UNCHANGED state_is_str
      ELSE Ignored

AutoPlay ==
    IF btn_auto = "normal"
      THEN \E res \in {on_autoplay(App)} :
               /\ Commit(res)
               /\ last_op' = Op("auto", IF res.raised THEN "raised" ELSE "applied", NoMove)
               /\ UNCHANGED state_is_str
      ELSE Ignored

Next == StartGame \/ HumanMove \/ AIMove \/ AutoPlay

Spec == Init /\ [][Next]_vars

(* ------------- the solver on its own: arbitrary call sequences ------------- *)
\* Solver(Rules(v)) with an empty memo
SolverInit ==
    /\ rules \in Variants
    /\ memo = NoMemo
    /\ current_state = NoState
    /\ transcript = <<>>
    /\ turn = 0
    /\ player_types = <<"human", "ai">>
    /\ btn_start = "normal"
    /\ btn_human_move = "disabled"
    /\ btn_ai_move = "disabled"
    /\ btn_auto = "disabled"
    /\ btn_report = "disabled"
    /\ winner_log = <<>>
    /\ state_is_str \in BOOLEAN
    /\ last_op = Op("init", "init", NoMove)
    /\ optimal = {}

CallIsWinning ==
    \E s \in Positions :
        /\ memo' = is_winning(rules, memo, s).memo
        /\ last_op' = Op("is_winning", "returned", NoMove)
        /\ UNCHANGED <<rules, current_state, transcript, turn, player_types,
                       btn_start, btn_human_move, btn_ai_move, btn_auto,
                       btn_report, winner_log, state_is_str, optimal>>

CallBestMove ==
    \E s \in Positions :
        LET bm == best_move(rules, memo, s)
        IN  /\ memo' = bm.memo
            /\ last_op' = Op("best_move", IF bm.raised THEN "raised" ELSE "returned",
                              NoMove)
            /\ UNCHANGED <<rules, current_state, transcript, turn, player_types,
                           btn_start, btn_human_move, btn_ai_move, btn_auto,
                           btn_report, winner_log, state_is_str, optimal>>

SolverNext == CallIsWinning \/ CallBestMove

SolverSpec == SolverInit /\ [][SolverNext]_vars

(* ======================= properties of the solver ======================= *)
\* the four moves and their legality, stated from the rules of the game
AllMoves == {Move(p, t) : p \in Piles, t \in Takes}
PileCount(s, p) == IF p = "R" THEN s.red ELSE s.blue
IsLegal(s, mv) == PileCount(s, mv.pile) >= mv.take
Result(s, mv) == IF mv.pile = "R" THEN State(s.red - mv.take, s.blue)
                                  ELSE State(s.red, s.blue - mv.take)
HasEmptyPile(s) == s.red = 0 \/ s.blue = 0
\* mv is a winning choice at s for the solver with memo m under variant v
WinningChoice(v, m, s, mv) ==
    IF HasEmptyPile(Result(s, mv))
      THEN terminal_value_from_mover(v)
      ELSE ~is_winning(v, m, Result(s, mv)).val
\* the first element of seq that is in S (S holds one of them)
FirstOf(seq, S) ==
    seq[CHOOSE i \in 1..Len(seq) : seq[i] \in S /\ \A j \in 1..(i - 1) : seq[j] \notin S]
PreferenceOrder == <<Move("R", 2), Move("B", 2), Move("R", 1), Move("B", 1)>>

\* C1: for both variants and every non-terminal position P, is_winning(P) is
\* true iff some legal move leads to a position Q that either has an empty pile
\* while terminal_value_from_mover() is true, or has no empty pile and
\* is_winning(Q) is false.
C1_ZeroSum ==
    \A P \in NonTerminal :
        is_winning(rules, memo, P).val
          <=> \E mv \in AllMoves : IsLegal(P, mv) /\ WinningChoice(rules, memo, P, mv)

\* C1 witness: is_winning has memoized a winning and a losing position
C1_Witness ==
    /\ last_op.op = "is_winning"
    /\ \E k1, k2 \in DOMAIN memo : memo[k1] /\ ~memo[k2]

\* C2: at every non-terminal position best_move returns the first candidate in
\* the order Red-2, Blue-2, Red-1, Blue-1 that is legal and a winning choice,
\* and the first legal candidate in that order when none is a winning choice;
\* under standard at (2,2) it returns Red-take-2.
C2_BestMoveOrder ==
    /\ \A P \in NonTerminal :
         LET bm == best_move(rules, memo, P)
             legal == {mv \in AllMoves : IsLegal(P, mv)}
             winning == {mv \in legal : WinningChoice(rules, memo, P, mv)}
         IN  /\ ~bm.raised
             /\ bm.move = IF winning # {} THEN FirstOf(PreferenceOrder, winning)
                                          ELSE FirstOf(PreferenceOrder, legal)
    /\ rules = "standard" => best_move(rules, memo, State(2, 2)).move = Move("R", 2)

\* C2 witness: best_move has run, on a solver for which some position has no
\* winning choice (second pass) and some has one (first pass)
C2_Witness ==
    /\ last_op = Op("best_move", "returned", NoMove)
    /\ \E P \in NonTerminal : ~is_winning(rules, memo, P).val
    /\ \E P \in NonTerminal : is_winning(rules, memo, P).val
    /\ memo # NoMemo

\* C7 (as stated): best_move fails with the no-legal-move error at every
\* position with red = 0 or blue = 0, under both variants.
C7_RaisesAtEveryTerminal ==
    \A s \in Positions : HasEmptyPile(s) => best_move(rules, memo, s).raised

\* C7 (amended): best_move fails with the no-legal-move error exactly at the
\* position with no legal move, (0,0); at a position with one empty pile it
\* returns a move on the other pile.
C7_RaisesIffNoLegalMove ==
    \A s \in Positions :
        LET bm == best_move(rules, memo, s)
        IN  /\ bm.raised <=> (s.red = 0 /\ s.blue = 0)
            /\ (HasEmptyPile(s) /\ ~bm.raised) => IsLegal(s, bm.move)

\* C7 witness: a best_move call has raised
C7_Witness == last_op = Op("best_move", "raised", NoMove)

\* C8 (as stated): under misere best_move never returns a move that empties a
\* pile while some other legal move that empties no pile exists.
C8_NeverEmptiesWhileOtherMove ==
    rules = "misere" =>
        \A P \in NonTerminal :
            LET bm == best_move(rules, memo, P)
            IN  (\E mv \in AllMoves : IsLegal(P, mv) /\ ~HasEmptyPile(Result(P, mv)))
                  => ~HasEmptyPile(Result(P, bm.move))

\* C8 (amended): under misere best_move never returns a move that empties a
\* pile while some legal move exists that empties no pile and leaves the
\* opponent a position that is not winning.
C8_NeverEmptiesWhileWinningChoice ==
    rules = "misere" =>
        \A P \in NonTerminal :
            LET bm == best_move(rules, memo, P)
            IN  (\E mv \in AllMoves : /\ IsLegal(P, mv)
                                      /\ ~HasEmptyPile(Result(P, mv))
                                      /\ ~is_winning(rules, memo, Result(P, mv)).val)
                  => ~HasEmptyPile(Result(P, bm.move))

\* C8 witness: under misere best_move has run and (1,2), where Red-1 empties a
\* pile and Blue-1 leaves the losing (1,1), has been evaluated
C8_Witness ==
    /\ rules = "misere"
    /\ last_op = Op("best_move", "returned", NoMove)
    /\ <<1, 1>> \in DOMAIN memo /\ ~memo[<<1, 1>>]
    /\ ~HasEmptyPile(Result(State(1, 2), best_move(rules, memo, State(1, 2)).move))

\* C9: for every non-terminal position, best_move on a solver whose memo was
\* filled by any earlier calls returns the move a solver with an empty memo
\* returns.
C9_MemoIndependent ==
    \A P \in NonTerminal :
        /\ best_move(rules, memo, P).move = best_move(rules, NoMemo, P).move
        /\ best_move(rules, memo, P).raised = best_move(rules, NoMemo, P).raised

\* C9 witness: the memo holds several entries of both verdicts
C9_Witness ==
    /\ Cardinality(DOMAIN memo) >= 3
    /\ \E k1, k2 \in DOMAIN memo : memo[k1] /\ ~memo[k2]

(* ======================= properties of the session ======================= *)
\* the starting position of the game in progress, once a move is recorded
StartPosition == transcript[1].before
\* entries recorded for a move that left a pile empty
EndingEntries == {k \in DOMAIN transcript : HasEmptyPile(transcript[k].after)}
FirstEnding == CHOOSE k \in EndingEntries : \A j \in EndingEntries : k <= j

\* C3: if the player to move at a position where is_winning is true plays
\* best_move on that turn and on every later turn of theirs, that player is the
\* recorded winner, whatever legal moves the opponent plays.
C3_OptimalPlayerWins ==
    Finished =>
        \A p \in optimal :
            /\ winner_log # <<>>
            /\ \A i \in DOMAIN winner_log : winner_log[i] = p

\* C3 witness: a finished game of three or more moves in which a human chose
\* moves freely and the other player kept to best_move from a winning position
C3_Witness ==
    /\ Finished
    /\ optimal # {}
    /\ Len(transcript) >= 3
    /\ \E k \in DOMAIN transcript :
         /\ transcript[k].player = "Human"
         /\ ((k - 1) % 2) \notin optimal

\* C4: auto-play reaches Finished, and the move that finishes the game is at
\* most the (red+blue)-th move from the starting position.
C4_AutoPlayTerminates ==
    last_op.op = "auto" =>
        /\ Finished
        /\ EndingEntries # {}
        /\ FirstEnding <= StartPosition.red + StartPosition.blue

\* C4 witness: a game auto-played from its starting position over several moves
C4_Witness ==
    /\ last_op.op = "auto"
    /\ Len(transcript) >= 3
    /\ \A k \in DOMAIN transcript : transcript[k].player \in {"Human (auto)", "AI (auto)"}

\* C5: once a game has reached Finished no further move is accepted: the move
\* that ended the game is the last entry of the transcript and no recorded move
\* was applied to a position that already had an empty pile.
C5_NoMoveAfterFinished ==
    \A k \in DOMAIN transcript :
        /\ transcript[k].ended => k = Len(transcript)
        /\ ~HasEmptyPile(transcript[k].before)

\* C6: a submitted move that is not legal against the current position is
\* rejected and leaves the current position, turn and transcript unchanged.
C6_IllegalMoveRejected ==
    [][(last_op'.op = "human" /\ ~IsLegal(current_state, last_op'.move))
         => /\ last_op'.outcome = "illegal"
            /\ UNCHANGED <<current_state, turn, transcript, memo, winner_log>>]_vars

\* C6 witness: Red-take-2 was submitted against a position with one red token
C6_Witness ==
    /\ last_op = Op("human", "illegal", Move("R", 2))
    /\ current_state.red = 1
    /\ current_state.blue = MaxStart

\* C10: when an applied move leaves a pile empty the game is Finished on that
\* move, the recorded winner is the player who moved under standard and the
\* other player under misere, and the entry of that move has ended = true and
\* mover_wins_if_end = terminal_value_from_mover(); earlier entries have
\* ended = false and no mover_wins_if_end.
C10_EndingMove ==
    /\ \A k \in DOMAIN transcript :
         IF HasEmptyPile(transcript[k].after)
           THEN /\ transcript[k].ended
                /\ transcript[k].mover_wins_if_end = Some(terminal_value_from_mover(rules))
           ELSE /\ ~transcript[k].ended
                /\ transcript[k].mover_wins_if_end = None
    /\ EndingEntries # {} =>
         /\ Finished
         /\ winner_log # <<>>
         /\ winner_log[1] = IF rules = "standard" THEN (FirstEnding - 1) % 2
                                                  ELSE 1 - ((FirstEnding - 1) % 2)
         /\ winner_log[Len(winner_log)] = IF rules = "standard" THEN turn ELSE 1 - turn
    /\ EndingEntries = {} => winner_log = <<>>

\* C10 witness: a misere game ended by the second player's move
C10_Witness ==
    /\ rules = "misere"
    /\ EndingEntries # {}
    /\ FirstEnding % 2 = 0
    /\ winner_log = <<0>>

(* ================= properties of the rules and the solver, continued ================= *)
\* takes a caller may hand to Rules.apply, legal amounts or not
ProbeTakes == 0..3
ProbeMoves == {Move(p, t) : p \in Piles, t \in ProbeTakes}
\* the subsequence of seq whose elements satisfy being in S
RECURSIVE FilterSeq(_, _)
FilterSeq(seq, S) ==
    IF seq = <<>> THEN <<>>
    ELSE (IF Head(seq) \in S THEN <<Head(seq)>> ELSE <<>>) \o FilterSeq(Tail(seq), S)
CanonicalOrder == <<Move("R", 1), Move("R", 2), Move("B", 1), Move("B", 2)>>

\* C11: for every position legal_moves returns exactly the moves (pile in
\* {R,B}, take in {1,2}) whose pile holds at least take tokens, in the order
\* Red-1, Red-2, Blue-1, Blue-2; and Rules.apply on a (pile, take) succeeds iff
\* the move is in legal_moves of that position, and fails otherwise.
C11_LegalMovesAndApply ==
    \A s \in Positions \cup (IF rules = "None" THEN {} ELSE {current_state}) :
        /\ legal_moves(s) =
             FilterSeq(CanonicalOrder, {mv \in AllMoves : IsLegal(s, mv)})
        /\ \A mv \in ProbeMoves :
             /\ (apply(s, mv) # IllegalMove) <=> InList(mv, legal_moves(s))
             /\ InList(mv, legal_moves(s)) => apply(s, mv) = Result(s, mv)

\* C11 witness: in one game a human move was applied and a later one rejected
C11_Witness ==
    /\ last_op.op = "human" /\ last_op.outcome = "illegal"
    /\ transcript # <<>>
    /\ transcript[Len(transcript)].player = "Human"
    /\ transcript[Len(transcript)].after
         = Result(transcript[Len(transcript)].before, transcript[Len(transcript)].move)

\* start forms that on_start must reject: a count below 1 or an unknown variant
BadStartInputs ==
    {inp \in StartInputs : inp[1] \notin {"standard", "misere"} \/ inp[3] < 1 \/ inp[4] < 1}

\* C12: a start with an unrecognised variant or with a red or blue count below 1
\* is rejected and starts no game: rules, solver, current position, turn and
\* transcript keep the values they had before the attempt.
C12_RejectedStartKeepsSession ==
    btn_start = "normal" =>
        \A inp \in BadStartInputs :
            LET res == on_start(App, inp[1], inp[2][1], inp[2][2], inp[3], inp[4])
            IN  /\ res.outcome # "started"
                /\ res.app.rules = rules
                /\ res.app.memo = memo
                /\ res.app.current_state = current_state
                /\ res.app.turn = turn
                /\ res.app.transcript = transcript
                /\ res.app.btn_start = "normal"

\* C12 witness: a finished game whose session values differ from the initial
\* ones, on which both kinds of bad start are attempted and rejected
C12_Witness ==
    /\ Finished /\ rules = "misere" /\ turn = 1 /\ Len(transcript) >= 2
    /\ memo # NoMemo
    /\ on_start(App, "bogus", "hh", "human", 1, 1).outcome = "bad_variant"
    /\ on_start(App, "standard", "hh", "human", 0, 1).outcome = "bad_piles"

\* C13: at position (1,1) is_winning is true under standard and false under
\* misere, and best_move returns Red-take-1 under both variants.
C13_OneOne ==
    /\ is_winning(rules, memo, State(1, 1)).val = (rules = "standard")
    /\ ~best_move(rules, memo, State(1, 1)).raised
    /\ best_move(rules, memo, State(1, 1)).move = Move("R", 1)

\* C13 witness: under misere the solver has evaluated (1,1) and then answered
\* a best_move call
C13_Witness ==
    /\ rules = "misere"
    /\ <<1, 1>> \in DOMAIN memo /\ ~memo[<<1, 1>>]
    /\ last_op.op = "best_move" /\ last_op.outcome = "returned"

\* C14: for both variants terminal_value_from_mover() is the negation of
\* terminal_value_from_next(): true and false under standard, false and true
\* under misere.
C14_TerminalValuesOpposite ==
    /\ terminal_value_from_mover(rules) = ~terminal_value_from_next(rules)
    /\ terminal_value_from_mover(rules) = (rules = "standard")
    /\ \A v \in Variants :
         /\ terminal_value_from_mover(v) \in BOOLEAN
         /\ terminal_value_from_next(v) \in BOOLEAN
         /\ terminal_value_from_mover(v) # terminal_value_from_next(v)

\* C14 witness: under misere is_winning was called and has memoized a position
\* whose value comes from terminal_value_from_mover
C14_Witness ==
    /\ rules = "misere"
    /\ last_op.op = "is_winning"
    /\ <<1, 2>> \in DOMAIN memo /\ memo[<<1, 2>>]

\* the start-of-turn terminal branch of apply_move leaves a transcript entry
\* that is not marked ended although its resulting position has an empty pile
StartOfTurnBranchTaken ==
    \E k \in DOMAIN transcript :
        HasEmptyPile(transcript[k].after) /\ ~transcript[k].ended

\* C15: whenever the session is awaiting a move both piles of the current
\* position are at least 1, and no count is ever negative; the start-of-turn
\* terminal branch of apply_move is never taken.
C15_AwaitingNonTerminal ==
    /\ Awaiting => current_state.red >= 1 /\ current_state.blue >= 1
    /\ rules # "None" => current_state.red >= 0 /\ current_state.blue >= 0
    /\ \A k \in DOMAIN transcript :
         /\ transcript[k].before.red >= 0 /\ transcript[k].before.blue >= 0
         /\ transcript[k].after.red >= 0 /\ transcript[k].after.blue >= 0
    /\ ~StartOfTurnBranchTaken

\* C15 witness: a game is awaiting its third move after a move that emptied
\* neither pile and flipped the turn
C15_Witness ==
    /\ Awaiting /\ Len(transcript) = 2 /\ turn = 0
    /\ last_op.outcome = "applied"
    /\ current_state = transcript[2].after

\* C16: every applied move appends exactly one transcript entry: entry k's
\* before is entry k-1's after and the first entry's before is the starting
\* position (both piles at least 1), the current position is the last entry's
\* after, each entry's after is its before with the selected pile reduced by
\* take, and ended is true for an entry iff its after has an empty pile, which
\* can only be the last entry.
C16_TranscriptChain ==
    /\ \A k \in DOMAIN transcript :
         /\ transcript[k].before =
              (IF k = 1 THEN StartPosition ELSE transcript[k - 1].after)
         /\ IsLegal(transcript[k].before, transcript[k].move)
         /\ transcript[k].after = Result(transcript[k].before, transcript[k].move)
         /\ transcript[k].ended <=> HasEmptyPile(transcript[k].after)
         /\ transcript[k].ended => k = Len(transcript)
    /\ transcript # <<>> =>
         /\ ~HasEmptyPile(StartPosition)
         /\ current_state = transcript[Len(transcript)].after

\* C17: over any sequence of is_winning and best_move calls on one Solver every
\* key of the memo is a position with red >= 1 and blue >= 1, the memo only
\* gains keys, and a key once written never changes its value.
C17_MemoGrowsOnly ==
    /\ [](\A k \in DOMAIN memo : k[1] >= 1 /\ k[2] >= 1)
    /\ [][\A k \in DOMAIN memo : k \in DOMAIN memo' /\ memo'[k] = memo[k]]_vars

\* C17 witness: after calls at terminal and non-terminal positions the memo
\* holds several keys, the last call being a best_move at a terminal position
C17_Witness ==
    /\ Cardinality(DOMAIN memo) >= 3
    /\ last_op.op = "best_move" /\ last_op.outcome = "raised"

\* the value of a position by the rules of the game alone: the player to move
\* wins iff some legal move either empties a pile under standard or leads to a
\* position the opponent loses
RECURSIVE MoverWins(_, _)
MoverWins(v, s) ==
    \E mv \in AllMoves :
        /\ IsLegal(s, mv)
        /\ IF HasEmptyPile(Result(s, mv)) THEN v = "standard"
                                          ELSE ~MoverWins(v, Result(s, mv))
GameValue ==
    [v \in Variants |->
        [k \in (1..MaxStart) \X (1..MaxStart) |-> MoverWins(v, State(k[1], k[2]))]]

\* C18: across games started one after another with possibly different variants
\* and starting piles, every memo entry the session's solver holds is the true
\* game value of its position under the variant of the game in progress.
C18_MemoOfCurrentVariant ==
    rules # "None" =>
        \A k \in DOMAIN memo :
            /\ k \in DOMAIN GameValue[rules]
            /\ memo[k] = GameValue[rules][k]

\* C18 witness: a finished standard game has left memo entries, and the misere
\* game started next evaluates a position whose value differs between the variants
C18_Witness ==
    /\ Finished /\ rules = "standard" /\ memo # NoMemo
    /\ \E nxt \in {on_start(App, "misere", "aa", "human", 2, 2).app} :
         /\ nxt.rules = "misere"
         /\ \E k \in DOMAIN memo \cap DOMAIN nxt.memo :
              /\ memo[k] # nxt.memo[k]
              /\ nxt.memo[k] = GameValue["misere"][k]

Total(s) == s.red + s.blue
OtherPile(p) == IF p = "R" THEN "B" ELSE "R"

\* C19: every legal move reduces the selected pile by exactly its take and
\* leaves the other pile unchanged, so red+blue decreases by 1 or 2 and stays
\* non-negative; hence an is_winning call returns, and every position it
\* evaluates on the way has a strictly smaller red+blue than its argument.
C19_MovesDecreaseTotal ==
    /\ \A s \in Positions : \A i \in DOMAIN legal_moves(s) :
         LET mv == legal_moves(s)[i]
             after == apply(s, mv)
         IN  /\ after # IllegalMove
             /\ PileCount(after, mv.pile) = PileCount(s, mv.pile) - mv.take
             /\ PileCount(after, OtherPile(mv.pile)) = PileCount(s, OtherPile(mv.pile))
             /\ Total(s) - Total(after) \in {1, 2}
             /\ after.red >= 0 /\ after.blue >= 0
    /\ \A s \in NonTerminal :
         LET res == is_winning(rules, memo, s)
         IN  /\ res.val \in BOOLEAN
             /\ Key(s) \in DOMAIN res.memo
             /\ \A k \in DOMAIN res.memo \ DOMAIN memo :
                  k = Key(s) \/ k[1] + k[2] < Total(s)

\* C19 witness: an is_winning call on the largest position has returned, having
\* recursed through smaller positions
C19_Witness ==
    /\ last_op.op = "is_winning"
    /\ <<3, 3>> \in DOMAIN memo
    /\ \E k \in DOMAIN memo : k[1] + k[2] < 6

\* the kind of player a transcript entry is labelled with
LabelKind(e) == IF e.player \in {"Human", "Human (auto)"} THEN "human" ELSE "ai"

\* C20: the turn starts at player 0 and flips on every applied move that does
\* not end the game, and only then: while a game is awaiting a move turn equals
\* the transcript length modulo 2, at any time turn is the number of recorded
\* moves that did not end the game modulo 2, and the k-th transcript entry
\* (counting from 0) was made by player k mod 2.
C20_TurnIsTranscriptParity ==
    /\ Awaiting => turn = Len(transcript) % 2
    /\ rules # "None" =>
         turn = Cardinality({k \in DOMAIN transcript : ~transcript[k].ended}) % 2
    /\ \A k \in DOMAIN transcript :
         LabelKind(transcript[k]) = player_types[((k - 1) % 2) + 1]

\* the legal moves at s whose resulting position has an empty pile
EmptyingMoves(s) == {mv \in AllMoves : IsLegal(s, mv) /\ HasEmptyPile(Result(s, mv))}

\* C21: under standard, at every non-terminal position where some legal move
\* empties a pile (a pile holds 1 or 2 tokens), best_move returns a move that
\* empties a pile, so the mover wins on that move.
C21_StandardTakesTheWin ==
    rules = "standard" =>
        \A P \in NonTerminal :
            /\ (EmptyingMoves(P) # {}) <=> (P.red \in {1, 2} \/ P.blue \in {1, 2})
            /\ EmptyingMoves(P) # {} =>
                 LET bm == best_move(rules, memo, P)
                 IN  /\ ~bm.raised
                     /\ bm.move \in EmptyingMoves(P)
                     /\ terminal_value_from_mover(rules)

\* C21 witness: under standard a best_move call has returned after evaluating
\* (1,1), the position a non-emptying candidate leads to at (1,3) or (3,1)
C21_Witness ==
    /\ rules = "standard"
    /\ last_op.op = "best_move" /\ last_op.outcome = "returned"
    /\ <<1, 1>> \in DOMAIN memo /\ memo[<<1, 1>>]
    /\ best_move(rules, memo, State(1, 3)).move = Move("R", 1)

Swap(s) == State(s.blue, s.red)

\* C22: for both variants and all positions (r, b), is_winning((r, b)) equals
\* is_winning((b, r)): the solver's verdict is symmetric in the two piles.
C22_VerdictSymmetric ==
    /\ rules \in Variants
    /\ \A s \in Positions :
         is_winning(rules, memo, s).val = is_winning(rules, memo, Swap(s)).val
    /\ \A k \in DOMAIN memo :
         <<k[2], k[1]>> \in DOMAIN memo => memo[<<k[2], k[1]>>] = memo[k]

\* C22 witness: is_winning has memoized a position with unequal piles and its
\* mirror image
C22_Witness ==
    /\ last_op.op = "is_winning"
    /\ <<1, 2>> \in DOMAIN memo /\ <<2, 1>> \in DOMAIN memo
    /\ <<2, 3>> \in DOMAIN memo /\ <<3, 2>> \in DOMAIN memo

====
